---- MODULE Spec2Model ----
(***************************************************************************)
(* Model of delete_urls.py: a one-shot batch job that reads a list of     *)
(* URLs, lists the collections of a Watson Discovery project, queries     *)
(* every collection for every URL and deletes each matching document.     *)
(*                                                                         *)
(* The program is sequential.  Its position is pc.  The environment is    *)
(* the process environment and the URL file, fixed when the run starts,   *)
(* and the remote project, whose content is drawn at the first call that  *)
(* reaches it.                                                            *)
(***************************************************************************)
EXTENDS Integers, Sequences, FiniteSets, TLC

\* ------------------------------------------------------------------ bounds
\* Largest number of lines of the URL file.
MaxLines == 2
\* Largest number of documents one query filter matches in the paging runs.
MaxResults == 250
\* Largest number of spaces before and after a line's text in the loading runs.
MaxPad == 1

\* --------------------------------------------------------- program constants
page_size == 100

\* ------------------------------------------------------------- environment
SP == " "
HASH == "#"
Whitespace == {SP}

\* The lines a URL file is made of: a comment, a padded url and a plain one.
LineSet == { <<SP, HASH, "a">>, <<SP, "a", SP>>, <<"b">> }

RECURSIVE SeqsUpTo(_, _)
SeqsUpTo(S, n) ==
    IF n = 0 THEN { <<>> }
    ELSE LET shorter == SeqsUpTo(S, n - 1)
         IN  shorter \cup { Append(s, x) : s \in shorter, x \in S }

Files == SeqsUpTo(LineSet, MaxLines)

Required == { "DISCOVERY_API_KEY", "DISCOVERY_URL", "DISCOVERY_PROJECT_ID" }
\* os.getenv gives None for an unset variable; a variable may be set but empty.
None == "<None>"
EnvValues == { None, "", "v" }
Environments == [Required -> EnvValues]

UrlA == <<"a">>
UrlB == <<"b">>
CollIds == { "c1", "c2" }
NoName == "<absent>"
\* What list_collections answers: no collection, one, or two (the second
\* one carries no "name" key).
CollectionLists ==
    { <<>>,
      << [collection_id |-> "c1", name |-> "A"] >>,
      << [collection_id |-> "c1", name |-> "A"],
         [collection_id |-> "c2", name |-> NoName] >> }

\* A stored document: its id (0: the result carries no document_id) and the
\* value of metadata.source.url.
Doc(id, url) == [document_id |-> id, url |-> url]
Indexes ==
    { [c \in CollIds |-> IF c = "c1" THEN one ELSE two] :
        one \in { <<>>, <<Doc(1, UrlA)>>, <<Doc(1, UrlA), Doc(2, UrlA)>> },
        two \in { <<>>, <<Doc(3, UrlB), Doc(1, UrlA)>> } }

\* The documents that exist: (collection, document id) pairs.
LiveOf(idx) ==
    UNION { { <<c, idx[c][i].document_id>> : i \in 1..Len(idx[c]) } : c \in CollIds }

NoRemote ==
    [collections |-> <<>>, index |-> [c \in CollIds |-> <<>>], live |-> {},
     lag |-> FALSE, endless |-> FALSE]

\* The remote project as the first call finds it.  Documents live only in
\* listed collections.  lag: the search index keeps answering with a
\* document after it was deleted (deletion has not propagated to queries).
\* endless: the filter matches without end, every page asked for comes back
\* full; the projects of the main runs hold finitely many documents.
Remotes ==
    { [collections |-> cl, index |-> idx, live |-> LiveOf(idx), lag |-> l,
       endless |-> FALSE] :
        cl \in CollectionLists, idx \in Indexes, l \in BOOLEAN }

ListedIds(r) == { r.collections[i].collection_id : i \in 1..Len(r.collections) }

ValidRemote(r) ==
    /\ \A c \in CollIds \ ListedIds(r) : r.index[c] = <<>>
    /\ r.lag => r.live # {}

Min(a, b) == IF a < b THEN a ELSE b

\* discovery.query(filter = metadata.source.url::"url", count, offset): the
\* documents of the collection whose source URL is exactly url, one page.
RemoteQuery(r, coll, url, count, off) ==
    IF r.endless
    THEN [i \in 1..count |-> Doc(off + i, url)]
    ELSE LET matching == SelectSeq(r.index[coll], LAMBDA d : d.url = url)
             last == Min(off + count, Len(matching))
         IN  IF off + 1 > last THEN <<>> ELSE SubSeq(matching, off + 1, last)

Status(s) == [kind |-> "status", status |-> s, text |-> ""]
Raise(t) == [kind |-> "raise", status |-> "", text |-> t]

\* discovery.delete_document: what the service may answer.  An existing
\* document is deleted, or the call fails (an error status, or an error
\* raised by the SDK); a document that is gone is reported as not found.
RemoteDelete(r, coll, id) ==
    IF <<coll, id>> \in r.live
    THEN { Status("deleted"), Status("failed"), Raise("service error") }
    ELSE { Status("not_found"), Raise("not found") }

RemoveDoc(s, id) == SelectSeq(s, LAMBDA d : d.document_id # id)

RemoteAfterDelete(r, coll, id, resp) ==
    IF resp = Status("deleted")
    THEN [r EXCEPT !.live = @ \ { <<coll, id>> },
                   !.index[coll] = IF r.lag THEN @ ELSE RemoveDoc(@, id)]
    ELSE r

\* ------------------------------------------------- the program's functions
\* A configuration check that looks at the API key only.
MissingKeyOnly(env) ==
    { k \in { "DISCOVERY_API_KEY" } : env[k] = None \/ env[k] = "" }

\* load_config, lines 23-24: the required keys whose value is unset or empty.
Missing(env) == { k \in Required : env[k] = None \/ env[k] = "" }

\* str.strip()
RECURSIVE LStrip(_)
LStrip(s) == IF s # <<>> /\ Head(s) \in Whitespace THEN LStrip(Tail(s)) ELSE s

RECURSIVE RStrip(_)
RStrip(s) ==
    IF s # <<>> /\ s[Len(s)] \in Whitespace
    THEN RStrip(SubSeq(s, 1, Len(s) - 1))
    ELSE s

Strip(s) == RStrip(LStrip(s))

StartsWith(s, ch) == s # <<>> /\ Head(s) = ch

\* A loader that looks for the comment marker before stripping the line.
RECURSIVE load_urlsRawComment(_)
load_urlsRawComment(lines) ==
    IF lines = <<>> THEN <<>>
    ELSE LET stripped == Strip(Head(lines))
         IN  IF stripped # <<>> /\ ~StartsWith(Head(lines), HASH)
             THEN <<stripped>> \o load_urlsRawComment(Tail(lines))
             ELSE load_urlsRawComment(Tail(lines))

\* load_urls, lines 44-50: the stripped lines that are neither empty nor
\* comments, in file order.
RECURSIVE load_urls(_)
load_urls(lines) ==
    IF lines = <<>> THEN <<>>
    ELSE LET stripped == Strip(Head(lines))
         IN  IF stripped # <<>> /\ ~StartsWith(stripped, HASH)
             THEN <<stripped>> \o load_urls(Tail(lines))
             ELSE load_urls(Tail(lines))

\* get_collections, line 65: (collection_id, name) pairs, "Unnamed" for a
\* collection without a name.
get_collections(response) ==
    [i \in 1..Len(response) |->
        [collection_id |-> response[i].collection_id,
         name |-> IF response[i].name = NoName THEN "Unnamed"
                  ELSE response[i].name]]

\* find_documents_by_url, lines 94-97: the document ids of one page; a
\* result without a document_id is skipped.
PageIds(results) ==
    LET withId == SelectSeq(results, LAMBDA d : d.document_id # 0)
    IN  [i \in 1..Len(withId) |-> withId[i].document_id]

\* A paging loop that ends on an empty page only.
LastPageOnlyEmpty(results) == results = <<>>

\* find_documents_by_url, lines 91-92 and 99-100: the loop ends on an empty
\* page or on a page shorter than page_size.
LastPage(results) == results = <<>> \/ Len(results) < page_size

\* A next page that starts on the last result of the page before.
NextOffsetShort(off) == off + page_size - 1

\* find_documents_by_url, line 101.
NextOffset(off) == off + page_size

\* The paging loop is followed up to this offset: one page past the last
\* offset a result set of MaxResults documents is asked at.
MaxOffset == (MaxResults \div page_size + 1) * page_size

ErrorRecord(url, id, cname, text) ==
    [url |-> url, doc_id |-> id, collection_name |-> cname, error |-> text]

\* A delete attempt whose exception is not caught: the try statement left out.
AfterDeleteUncaught(resp, url, id, cname, deleted, errs) ==
    IF resp.kind = "raise"
    THEN [total_deleted |-> deleted,
          errors |-> errs,
          printed |-> "", propagates |-> TRUE]
    ELSE IF resp.status = "deleted"
    THEN [total_deleted |-> deleted + 1,
          errors |-> errs,
          printed |-> "deleted", propagates |-> FALSE]
    ELSE [total_deleted |-> deleted,
          errors |-> Append(errs, ErrorRecord(url, id, cname, "unexpected status")),
          printed |-> "warning", propagates |-> FALSE]

\* A delete attempt counted as a success whatever status comes back.
AfterDeleteAnyStatus(resp, url, id, cname, deleted, errs) ==
    IF resp.kind = "raise"
    THEN [total_deleted |-> deleted,
          errors |-> Append(errs, ErrorRecord(url, id, cname, resp.text)),
          printed |-> "error", propagates |-> FALSE]
    ELSE [total_deleted |-> deleted + 1,
          errors |-> errs,
          printed |-> "deleted", propagates |-> FALSE]

\* A delete attempt whose unexpected status is printed but not recorded.
AfterDeleteDropsStatus(resp, url, id, cname, deleted, errs) ==
    IF resp.kind = "raise"
    THEN [total_deleted |-> deleted,
          errors |-> Append(errs, ErrorRecord(url, id, cname, resp.text)),
          printed |-> "error", propagates |-> FALSE]
    ELSE IF resp.status = "deleted"
    THEN [total_deleted |-> deleted + 1,
          errors |-> errs,
          printed |-> "deleted", propagates |-> FALSE]
    ELSE [total_deleted |-> deleted,
          errors |-> errs,
          printed |-> "warning", propagates |-> FALSE]

\* A delete attempt whose error record is put at the head of the list.
AfterDeletePrepends(resp, url, id, cname, deleted, errs) ==
    IF resp.kind = "raise"
    THEN [total_deleted |-> deleted,
          errors |-> <<ErrorRecord(url, id, cname, resp.text)>> \o errs,
          printed |-> "error", propagates |-> FALSE]
    ELSE IF resp.status = "deleted"
    THEN [total_deleted |-> deleted + 1,
          errors |-> errs,
          printed |-> "deleted", propagates |-> FALSE]
    ELSE [total_deleted |-> deleted,
          errors |-> <<ErrorRecord(url, id, cname, "unexpected status")>> \o errs,
          printed |-> "warning", propagates |-> FALSE]

\* A delete attempt whose unexpected status is recorded and counted as well.
AfterDeleteCountsFailure(resp, url, id, cname, deleted, errs) ==
    IF resp.kind = "raise"
    THEN [total_deleted |-> deleted,
          errors |-> Append(errs, ErrorRecord(url, id, cname, resp.text)),
          printed |-> "error", propagates |-> FALSE]
    ELSE [total_deleted |-> deleted + 1,
          errors |-> IF resp.status = "deleted" THEN errs
                     ELSE Append(errs, ErrorRecord(url, id, cname, "unexpected status")),
          printed |-> IF resp.status = "deleted" THEN "deleted" ELSE "warning",
          propagates |-> FALSE]

\* main, lines 158-168: what one delete attempt does to the counters.
\* delete_document (line 114) is True exactly for the status "deleted"; any
\* exception raised inside the try statement is caught at line 166, so none
\* propagates.
AfterDelete(resp, url, id, cname, deleted, errs) ==
    IF resp.kind = "raise"
    THEN [total_deleted |-> deleted,
          errors |-> Append(errs, ErrorRecord(url, id, cname, resp.text)),
          printed |-> "error", propagates |-> FALSE]
    ELSE IF resp.status = "deleted"
    THEN [total_deleted |-> deleted + 1,
          errors |-> errs,
          printed |-> "deleted", propagates |-> FALSE]
    ELSE [total_deleted |-> deleted,
          errors |-> Append(errs, ErrorRecord(url, id, cname, "unexpected status")),
          printed |-> "warning", propagates |-> FALSE]

\* The not-found test inverted.
AfterUrlInverted(found, not_found) == IF found THEN not_found + 1 ELSE not_found

\* A not-found test that counts a matched entry too as long as no entry was
\* counted yet.
AfterUrlFirstAlways(found, not_found) ==
    IF found /\ not_found > 0 THEN not_found ELSE not_found + 1

\* main, lines 170-172.
AfterUrl(found, not_found) == IF found THEN not_found ELSE not_found + 1

\* ------------------------------------------------------------------- state
VARIABLES
    environ,          \* os.environ after load_dotenv
    fs,               \* the URL file: [exists, lines]
    remote,           \* the remote project
    pc,               \* position in main
    exit_code,        \* process exit status once pc = "exited", else -1
    uncaught,         \* the call whose exception ended the run, "" if none
    urls, collections,
    ui, ci, di,       \* the loops' positions: url, collection, document
    doc_ids, offset,  \* find_documents_by_url's locals
    found_any, total_deleted, total_not_found, errors,
    output,           \* what was printed
    calls,            \* the remote calls made, in order
    finds,            \* the invocations of find_documents_by_url
    snap,             \* the counters at the top of each url iteration
    loads             \* the invocations of load_urls

vars ==
    << environ, fs, remote, pc, exit_code, uncaught, urls, collections,
       ui, ci, di, doc_ids, offset, found_any, total_deleted,
       total_not_found, errors, output, calls, finds, snap, loads >>

envVars == << environ, fs >>
loopVars == << ui, ci, di, doc_ids, offset, found_any >>
resultVars == << total_deleted, total_not_found, errors >>
logVars == << calls, finds, snap, loads >>

Ev(kind, url, id, cname, text, n) ==
    [kind |-> kind, url |-> url, doc_id |-> id, collection_name |-> cname,
     text |-> text, n |-> n]
Line(kind) == Ev(kind, <<>>, 0, "", "", 0)
Count(kind, n) == Ev(kind, <<>>, 0, "", "", n)

Call(op, coll, url, off, id, outcome, returned) ==
    [op |-> op, collection_id |-> coll, url |-> url, offset |-> off,
     doc_id |-> id, outcome |-> outcome, returned |-> returned, text |-> "",
     ui |-> ui, ci |-> ci, di |-> di]

Exit(code) == pc' = "exited" /\ exit_code' = code

NoFile == [exists |-> FALSE, lines |-> <<>>]
FileSystems == { NoFile } \cup { [exists |-> TRUE, lines |-> f] : f \in Files }

StartOfMain ==
    /\ remote = NoRemote
    /\ pc = "load_config"
    /\ exit_code = -1
    /\ uncaught = ""
    /\ urls = <<>> /\ collections = <<>>
    /\ ui = 0 /\ ci = 0 /\ di = 0
    /\ doc_ids = <<>> /\ offset = 0
    /\ found_any = FALSE
    /\ total_deleted = 0 /\ total_not_found = 0 /\ errors = <<>>
    /\ output = <<>> /\ calls = <<>> /\ finds = <<>> /\ snap = <<>>
    /\ loads = 0

Init ==
    /\ environ \in Environments
    /\ fs \in FileSystems
    /\ StartOfMain

\* ----------------------------------------------------------------- actions
\* main, line 120; load_config, lines 23-27.
LoadConfig ==
    /\ pc = "load_config"
    /\ IF Missing(environ) # {}
       THEN /\ output' = Append(output, Line("ERROR: Missing required config"))
            /\ Exit(1)
       ELSE /\ pc' = "load_urls"
            /\ UNCHANGED << output, exit_code >>
    /\ UNCHANGED << envVars, remote, uncaught, urls, collections, loopVars,
                    resultVars, logVars >>

\* main, line 121; load_urls, lines 39-50.
LoadUrls ==
    /\ pc = "load_urls"
    /\ loads' = loads + 1
    /\ IF ~fs.exists
       THEN /\ output' = Append(output, Line("ERROR: URL file not found"))
            /\ Exit(1)
            /\ UNCHANGED urls
       ELSE /\ urls' = load_urls(fs.lines)
            /\ pc' = "check_urls"
            /\ UNCHANGED << output, exit_code >>
    /\ UNCHANGED << envVars, remote, uncaught, collections, loopVars,
                    resultVars, calls, finds, snap >>

\* A start that goes on to the service with an empty url list.
CheckUrlsNoExit ==
    /\ pc = "check_urls"
    /\ output' = Append(output, Count("Loaded URL(s) to delete", Len(urls)))
    /\ pc' = "get_collections"
    /\ UNCHANGED << envVars, remote, exit_code, uncaught, urls, collections,
                    loopVars, resultVars, logVars >>

\* main, lines 123-130.  create_client builds the client object; it sends
\* nothing.
CheckUrls ==
    /\ pc = "check_urls"
    /\ IF urls = <<>>
       THEN /\ output' = Append(output, Line("No URLs found in input file. Nothing to do."))
            /\ Exit(0)
       ELSE /\ output' = Append(output, Count("Loaded URL(s) to delete", Len(urls)))
            /\ pc' = "get_collections"
            /\ UNCHANGED exit_code
    /\ UNCHANGED << envVars, remote, uncaught, urls, collections, loopVars,
                    resultVars, logVars >>

CollectionLines(cs) ==
    [i \in 1..Len(cs) |->
        Ev("collection", <<>>, 0, cs[i].name, cs[i].collection_id, 0)]

\* A start that enters the url loop with whatever list came back.
GetCollectionsNoCheck ==
    /\ pc = "get_collections"
    /\ \E r \in Remotes :
        /\ ValidRemote(r)
        /\ remote' = r
        /\ calls' = Append(calls, Call("list_collections", "", <<>>, 0, 0, "ok",
                                       Len(r.collections)))
        /\ collections' = get_collections(r.collections)
    /\ output' = Append(output, Count("Found collection(s)", Len(collections')))
                     \o CollectionLines(collections')
    /\ pc' = "url_loop"
    /\ UNCHANGED << envVars, exit_code, uncaught, urls, loopVars, resultVars,
                    finds, snap, loads >>

\* main, lines 132-144; get_collections, lines 63-65.
GetCollections ==
    /\ pc = "get_collections"
    /\ \E r \in Remotes :
        /\ ValidRemote(r)
        /\ remote' = r
        /\ calls' = Append(calls, Call("list_collections", "", <<>>, 0, 0, "ok",
                                       Len(r.collections)))
        /\ collections' = get_collections(r.collections)
    /\ IF collections' = <<>>
       THEN /\ output' = Append(output, Line("ERROR: No collections found in the project."))
            /\ Exit(1)
       ELSE /\ output' = Append(output, Count("Found collection(s)", Len(collections')))
                            \o CollectionLines(collections')
            /\ pc' = "url_loop"
            /\ UNCHANGED exit_code
    /\ UNCHANGED << envVars, uncaught, urls, loopVars, resultVars, finds,
                    snap, loads >>

\* main, line 132: list_collections raises; nothing catches it.
GetCollectionsRaises ==
    /\ pc = "get_collections"
    /\ calls' = Append(calls, Call("list_collections", "", <<>>, 0, 0, "raised", 0))
    /\ uncaught' = "list_collections"
    /\ Exit(1)
    /\ UNCHANGED << envVars, remote, urls, collections, loopVars, resultVars,
                    output, finds, snap, loads >>

Counters ==
    [total_deleted |-> total_deleted, total_not_found |-> total_not_found,
     errors |-> Len(errors)]

\* main, lines 146-148: the next url, or the end of the url loop.
NextUrl ==
    /\ pc = "url_loop"
    /\ snap' = Append(snap, Counters)
    /\ IF ui < Len(urls)
       THEN /\ ui' = ui + 1
            /\ output' = Append(output, Ev("Processing", urls[ui + 1], 0, "", "", 0))
            /\ found_any' = FALSE
            /\ ci' = 0
            /\ pc' = "coll_loop"
       ELSE /\ pc' = "summary"
            /\ UNCHANGED << ui, ci, found_any, output >>
    /\ UNCHANGED << envVars, remote, exit_code, uncaught, urls, collections,
                    di, doc_ids, offset, resultVars, calls, finds, loads >>

\* main, lines 150-151; find_documents_by_url, lines 74-78: the next
\* collection is searched.
NextCollection ==
    /\ pc = "coll_loop"
    /\ ci < Len(collections)
    /\ ci' = ci + 1
    /\ finds' = Append(finds, [ui |-> ui, ci |-> ci + 1, url |-> urls[ui],
                               collection_id |-> collections[ci + 1].collection_id,
                               returned |-> FALSE, result |-> <<>>])
    /\ doc_ids' = <<>>
    /\ offset' = 0
    /\ pc' = "query"
    /\ UNCHANGED << envVars, remote, exit_code, uncaught, urls, collections,
                    ui, di, found_any, resultVars, output, calls, snap, loads >>

\* A collection loop that may stop at the first collection with a match.
EndUrlBreak ==
    /\ pc = "coll_loop"
    /\ ci = Len(collections) \/ found_any
    /\ total_not_found' = AfterUrl(found_any, total_not_found)
    /\ output' = IF found_any THEN output
                 ELSE Append(output, Line("Not found in any collection."))
    /\ pc' = "url_loop"
    /\ UNCHANGED << envVars, remote, exit_code, uncaught, urls, collections,
                    loopVars, total_deleted, errors, logVars >>

\* main, lines 170-172: the collections are exhausted for this url.
EndUrl ==
    /\ pc = "coll_loop"
    /\ ci = Len(collections)
    /\ total_not_found' = AfterUrl(found_any, total_not_found)
    /\ output' = IF found_any THEN output
                 ELSE Append(output, Line("Not found in any collection."))
    /\ pc' = "url_loop"
    /\ UNCHANGED << envVars, remote, exit_code, uncaught, urls, collections,
                    loopVars, total_deleted, errors, logVars >>

\* find_documents_by_url, lines 80-103: one pass of the paging loop.
QueryPage ==
    /\ pc = "query"
    /\ offset <= MaxOffset
    /\ LET coll == collections[ci].collection_id
           results == RemoteQuery(remote, coll, urls[ui], page_size, offset)
           ids == doc_ids \o PageIds(results)
       IN  /\ calls' = Append(calls, Call("query", coll, urls[ui], offset, 0, "ok",
                                          Len(results)))
           /\ doc_ids' = ids
           /\ IF LastPage(results)
              THEN /\ pc' = "found"
                   /\ finds' = [finds EXCEPT ![Len(finds)].returned = TRUE,
                                             ![Len(finds)].result = ids]
                   /\ UNCHANGED offset
              ELSE /\ offset' = NextOffset(offset)
                   /\ UNCHANGED << pc, finds >>
    /\ UNCHANGED << envVars, remote, exit_code, uncaught, urls, collections,
                    ui, ci, di, found_any, resultVars, output, snap, loads >>

\* A search failure that is isolated like a delete failure: the collection
\* is skipped and the run goes on.
QueryRaisesIsolated ==
    /\ pc = "query"
    /\ calls' = Append(calls, Call("query", collections[ci].collection_id, urls[ui],
                                   offset, 0, "raised", 0))
    /\ pc' = "coll_loop"
    /\ UNCHANGED << envVars, remote, exit_code, uncaught, urls, collections,
                    loopVars, resultVars, output, finds, snap, loads >>

\* find_documents_by_url, line 81: discovery.query raises; neither
\* find_documents_by_url nor main catches it.
QueryRaises ==
    /\ pc = "query"
    /\ calls' = Append(calls, Call("query", collections[ci].collection_id, urls[ui],
                                   offset, 0, "raised", 0))
    /\ uncaught' = "query"
    /\ Exit(1)
    /\ UNCHANGED << envVars, remote, urls, collections, loopVars, resultVars,
                    output, finds, snap, loads >>

\* A match that is not remembered for the not-found test.
CheckMatchesForgets ==
    /\ pc = "found"
    /\ IF doc_ids = <<>>
       THEN /\ pc' = "coll_loop"
            /\ UNCHANGED di
       ELSE /\ di' = 0
            /\ pc' = "doc_loop"
    /\ UNCHANGED << envVars, remote, exit_code, uncaught, urls, collections,
                    ui, ci, doc_ids, offset, found_any, resultVars, output,
                    logVars >>

\* main, lines 153-157.
CheckMatches ==
    /\ pc = "found"
    /\ IF doc_ids = <<>>
       THEN /\ pc' = "coll_loop"
            /\ UNCHANGED << found_any, di >>
       ELSE /\ found_any' = TRUE
            /\ di' = 0
            /\ pc' = "doc_loop"
    /\ UNCHANGED << envVars, remote, exit_code, uncaught, urls, collections,
                    ui, ci, doc_ids, offset, resultVars, output, logVars >>

\* A delete attempt that is always sent to the first collection of the list.
DeleteStepFirstCollection ==
    /\ pc = "doc_loop"
    /\ di < Len(doc_ids)
    /\ LET id == doc_ids[di + 1]
           coll == collections[1].collection_id
           cname == collections[ci].name
       IN  \E resp \in RemoteDelete(remote, coll, id) :
             LET after == AfterDelete(resp, urls[ui], id, cname, total_deleted, errors)
             IN  /\ remote' = RemoteAfterDelete(remote, coll, id, resp)
                 /\ di' = di + 1
                 /\ calls' = Append(calls,
                        [Call("delete_document", coll, <<>>, 0, id,
                              IF resp.kind = "raise" THEN "raised" ELSE resp.status, 0)
                            EXCEPT !.di = di + 1, !.text = resp.text])
                 /\ total_deleted' = after.total_deleted
                 /\ errors' = after.errors
                 /\ IF after.propagates
                    THEN /\ uncaught' = "delete_document"
                         /\ Exit(1)
                         /\ UNCHANGED output
                    ELSE /\ output' = Append(output,
                                Ev(after.printed, <<>>, id, cname,
                                   IF resp.kind = "raise" THEN resp.text ELSE "", 0))
                         /\ UNCHANGED << pc, exit_code, uncaught >>
    /\ UNCHANGED << envVars, urls, collections, ui, ci, doc_ids, offset,
                    found_any, total_not_found, finds, snap, loads >>

\* main, lines 157-168; delete_document, lines 108-114: one delete attempt.
DeleteStep ==
    /\ pc = "doc_loop"
    /\ di < Len(doc_ids)
    /\ LET id == doc_ids[di + 1]
           coll == collections[ci].collection_id
           cname == collections[ci].name
       IN  \E resp \in RemoteDelete(remote, coll, id) :
             LET after == AfterDelete(resp, urls[ui], id, cname, total_deleted, errors)
             IN  /\ remote' = RemoteAfterDelete(remote, coll, id, resp)
                 /\ di' = di + 1
                 /\ calls' = Append(calls,
                        [Call("delete_document", coll, <<>>, 0, id,
                              IF resp.kind = "raise" THEN "raised" ELSE resp.status, 0)
                            EXCEPT !.di = di + 1, !.text = resp.text])
                 /\ total_deleted' = after.total_deleted
                 /\ errors' = after.errors
                 /\ IF after.propagates
                    THEN /\ uncaught' = "delete_document"
                         /\ Exit(1)
                         /\ UNCHANGED output
                    ELSE /\ output' = Append(output,
                                Ev(after.printed, <<>>, id, cname,
                                   IF resp.kind = "raise" THEN resp.text ELSE "", 0))
                         /\ UNCHANGED << pc, exit_code, uncaught >>
    /\ UNCHANGED << envVars, urls, collections, ui, ci, doc_ids, offset,
                    found_any, total_not_found, finds, snap, loads >>

\* A document loop that is followed by one more request for the next page of
\* the same search.
EndDocsRequery ==
    /\ pc = "doc_loop"
    /\ di = Len(doc_ids)
    /\ IF offset <= page_size
       THEN /\ offset' = NextOffset(offset)
            /\ pc' = "query"
       ELSE /\ pc' = "coll_loop"
            /\ UNCHANGED offset
    /\ UNCHANGED << envVars, remote, exit_code, uncaught, urls, collections,
                    ui, ci, di, doc_ids, found_any, resultVars, output, logVars >>

\* main, line 157: the documents of this collection are exhausted.
EndDocs ==
    /\ pc = "doc_loop"
    /\ di = Len(doc_ids)
    /\ pc' = "coll_loop"
    /\ UNCHANGED << envVars, remote, exit_code, uncaught, urls, collections,
                    loopVars, resultVars, output, logVars >>

ErrorLines(errs) ==
    [i \in 1..Len(errs) |->
        Ev("error line", errs[i].url, errs[i].doc_id, errs[i].collection_name,
           errs[i].error, 0)]

\* An exit status that reflects the recorded errors.
ExitStatusFromErrors(errs) == IF errs = <<>> THEN 0 ELSE 1

\* main returns at line 182 whatever errors holds, and the script ends: the
\* interpreter exits with status 0.
ExitStatusAtEnd(errs) == 0

\* main, lines 174-182, and the normal end of the script.
Summary ==
    /\ pc = "summary"
    /\ output' = output
                 \o << Line("--- Summary ---"),
                       Count("URLs processed", Len(urls)),
                       Count("Documents deleted", total_deleted),
                       Count("URLs not found", total_not_found) >>
                 \o (IF errors # <<>>
                     THEN << Count("Errors", Len(errors)) >> \o ErrorLines(errors)
                     ELSE <<>>)
    /\ Exit(ExitStatusAtEnd(errors))
    /\ UNCHANGED << envVars, remote, uncaught, urls, collections, loopVars,
                    resultVars, logVars >>

Next ==
    \/ LoadConfig
    \/ LoadUrls
    \/ CheckUrls
    \/ GetCollections
    \/ GetCollectionsRaises
    \/ NextUrl
    \/ NextCollection
    \/ EndUrl
    \/ QueryPage
    \/ QueryRaises
    \/ CheckMatches
    \/ DeleteStep
    \/ EndDocs
    \/ Summary

Spec == Init /\ [][Next]_vars

\* The script runs on until it exits: every step that can be taken is taken.
FairSpec == Spec /\ WF_vars(Next)

\* ------------------------------------------------------------ paging runs
\* A collection holding n documents of UrlA (ids 1..n, in index order) after
\* one document of UrlB; with idless, the first match has no document_id.
PagingIndex(n, idless) ==
    [c \in CollIds |->
        IF c = "c1"
        THEN <<Doc(n + 1, UrlB)>>
             \o [i \in 1..n |-> Doc(IF idless /\ i = 1 THEN 0 ELSE i, UrlA)]
        ELSE <<>>]

\* The program's state when main has just called find_documents_by_url for
\* the only url and the only collection of the run.
PagingStart ==
    /\ pc = "query"
    /\ exit_code = -1
    /\ uncaught = ""
    /\ urls = << UrlA >>
    /\ collections = << [collection_id |-> "c1", name |-> "A"] >>
    /\ ui = 1 /\ ci = 1 /\ di = 0
    /\ doc_ids = <<>> /\ offset = 0
    /\ found_any = FALSE
    /\ total_deleted = 0 /\ total_not_found = 0 /\ errors = <<>>
    /\ output = << Count("Loaded URL(s) to delete", 1),
                   Count("Found collection(s)", 1),
                   Ev("collection", <<>>, 0, "A", "c1", 0),
                   Ev("Processing", UrlA, 0, "", "", 0) >>
    /\ calls = << [op |-> "list_collections", collection_id |-> "", url |-> <<>>,
                   offset |-> 0, doc_id |-> 0, outcome |-> "ok", returned |-> 1,
                   text |-> "", ui |-> 0, ci |-> 0, di |-> 0] >>
    /\ finds = << [ui |-> 1, ci |-> 1, url |-> UrlA, collection_id |-> "c1",
                   returned |-> FALSE, result |-> <<>>] >>
    /\ snap = << [total_deleted |-> 0, total_not_found |-> 0, errors |-> 0] >>
    /\ loads = 1

\* main has just called find_documents_by_url for the only url and the only
\* collection of the run.
InitPaging ==
    /\ environ = [k \in Required |-> "v"]
    /\ fs = [exists |-> TRUE, lines |-> << <<SP, "a", SP>> >>]
    /\ \E n \in 0..MaxResults, idless \in BOOLEAN :
         /\ idless => n > 0
         /\ remote = [collections |-> << [collection_id |-> "c1", name |-> "A"] >>,
                      index |-> PagingIndex(n, idless),
                      live |-> LiveOf(PagingIndex(n, idless)),
                      lag |-> FALSE, endless |-> FALSE]
    /\ PagingStart

NextPaging == QueryPage \/ CheckMatches

SpecPaging == InitPaging /\ [][NextPaging]_vars

\* ------------------------------------------------------ reading the logs
Reported ==
    /\ pc = "exited"
    /\ \E i \in DOMAIN output : output[i].kind = "--- Summary ---"

IsDelete(c) == c.op = "delete_document"
IsQuery(c) == c.op = "query"
DeleteCalls == SelectSeq(calls, IsDelete)
QueryCalls == SelectSeq(calls, IsQuery)
FailedDelete(c) == IsDelete(c) /\ c.outcome # "deleted"
FailedCalls == SelectSeq(calls, FailedDelete)

FindsOf(u, c) == { i \in DOMAIN finds : finds[i].ui = u /\ finds[i].ci = c }
Attempted(u, c, d) ==
    \E k \in DOMAIN calls :
        IsDelete(calls[k]) /\ calls[k].ui = u /\ calls[k].ci = c /\ calls[k].di = d
Searched(u, c) == \E i \in FindsOf(u, c) : finds[i].returned
ResultOf(u, c) == finds[CHOOSE i \in FindsOf(u, c) : TRUE].result

\* ------------------------------------------------------------------ claims
Running == pc # "exited"
InUrl(u) == Running /\ ui = u /\ pc \in { "coll_loop", "query", "found", "doc_loop" }

\* C1: a failed delete attempt (an exception, or a status other than
\* "deleted") never ends the run.  After it every later document id of the
\* same query result is attempted or is still to come in the same document
\* loop, every later collection is searched for the same url or is still to
\* come, and every later url is processed or still to come; only a query that
\* raises stops the run before that.
C1_FailureIsolated ==
    \A k \in DOMAIN calls :
        FailedDelete(calls[k]) =>
            LET u == calls[k].ui
                c == calls[k].ci
                d == calls[k].di
            IN  /\ uncaught # "delete_document"
                /\ \A d2 \in (d + 1)..Len(ResultOf(u, c)) :
                       \/ Attempted(u, c, d2)
                       \/ pc = "doc_loop" /\ ui = u /\ ci = c /\ di < d2
                /\ \A c2 \in (c + 1)..Len(collections) :
                       \/ FindsOf(u, c2) # {}
                       \/ InUrl(u) /\ ci < c2
                       \/ uncaught = "query"
                /\ \A u2 \in (u + 1)..Len(urls) :
                       \/ FindsOf(u2, 1) # {}
                       \/ Running /\ ui <= u2
                       \/ uncaught = "query"
                /\ Reported =>
                       /\ \A u2 \in u..Len(urls), c2 \in 1..Len(collections) :
                              Searched(u2, c2)
                       /\ \A d2 \in 1..Len(ResultOf(u, c)) : Attempted(u, c, d2)

\* A run reported its summary after a delete failed on the first of two
\* documents of the first of two collections, for the first of two urls.
C1_Witness ==
    /\ Reported
    /\ Len(urls) = 2 /\ Len(collections) = 2
    /\ \E k \in DOMAIN calls :
           /\ FailedDelete(calls[k])
           /\ calls[k].outcome = "raised"
           /\ calls[k].ui = 1 /\ calls[k].ci = 1 /\ calls[k].di = 1
           /\ Len(ResultOf(1, 1)) = 2
    /\ \E k \in DOMAIN calls : FailedDelete(calls[k]) /\ calls[k].outcome = "failed"

\* C2: in a run that reaches the summary, list_collections was called once,
\* the collections searched are the ones it returned, and
\* find_documents_by_url was invoked exactly once for every url entry of the
\* input and every collection: (number of urls) x (number of collections)
\* invocations, each with that entry's url and that collection's id.
C2_EveryPairOnce ==
    Reported =>
        /\ Cardinality({ k \in DOMAIN calls : calls[k].op = "list_collections" }) = 1
        /\ Len(collections) = Len(remote.collections)
        /\ \A c \in DOMAIN collections :
               collections[c].collection_id = remote.collections[c].collection_id
        /\ Len(finds) = Len(urls) * Len(collections)
        /\ \A u \in DOMAIN urls, c \in DOMAIN collections :
               /\ Cardinality(FindsOf(u, c)) = 1
               /\ \A i \in FindsOf(u, c) :
                      /\ finds[i].url = urls[u]
                      /\ finds[i].collection_id = collections[c].collection_id
                      /\ finds[i].returned

\* The summary of a run over two url entries and two collections, the first
\* url found in the first collection.
C2_Witness ==
    /\ Reported
    /\ Len(urls) = 2 /\ Len(collections) = 2
    /\ Len(finds) = 4
    /\ finds[1].result # <<>>

DeletedCalls == { k \in DOMAIN calls : IsDelete(calls[k]) /\ calls[k].outcome = "deleted" }
SameDoc(a, b) == a.collection_id = b.collection_id /\ a.doc_id = b.doc_id
\* The delete attempts on a document that an earlier attempt of the run removed.
LateDelete(k) ==
    /\ IsDelete(calls[k])
    /\ \E j \in 1..(k - 1) :
           /\ IsDelete(calls[j]) /\ calls[j].outcome = "deleted"
           /\ SameDoc(calls[j], calls[k])

\* C3: total_deleted counts every removed document once: it equals the
\* number of successful delete calls and the number of distinct
\* (collection, document id) pairs removed, however often the document was
\* looked up.  A later delete attempt on a removed document is not counted
\* and does not end the run: it leaves one error record.
C3_DeletedCountedOnce ==
    /\ total_deleted = Cardinality(DeletedCalls)
    /\ total_deleted =
           Cardinality({ <<calls[k].collection_id, calls[k].doc_id>> : k \in DeletedCalls })
    /\ \A k \in DOMAIN calls : LateDelete(k) =>
           /\ calls[k].outcome # "deleted"
           /\ uncaught # "delete_document"
           /\ Cardinality({ i \in DOMAIN errors :
                  /\ errors[i].doc_id = calls[k].doc_id
                  /\ errors[i].collection_name = collections[calls[k].ci].name
                  /\ errors[i].url = urls[calls[k].ui] }) >= 1
    /\ Len(errors) = Len(FailedCalls)

\* The same url on two lines: the document was deleted for the first entry,
\* found again for the second, and the second attempt was reported; the run
\* reached its summary with one deletion.
C3_Witness ==
    /\ Reported
    /\ Len(urls) = 2 /\ urls[1] = urls[2]
    /\ total_deleted = 1
    /\ \E k \in DOMAIN calls :
           LateDelete(k) /\ calls[k].ui = 2 /\ calls[k].outcome = "not_found"
    /\ Len(finds) >= 2 /\ finds[1].result = finds[Len(collections) + 1].result

\* C4: against a result set of N full pages and a shorter, non-empty last
\* page, find_documents_by_url queries the offsets 0, page_size, ...,
\* N * page_size in this order, N + 1 calls and none after the short page,
\* and returns the document ids of all pages in page order.
Matching == SelectSeq(remote.index["c1"], LAMBDA d : d.url = UrlA)
FullPages == Len(Matching) \div page_size
C4_Pagination ==
    (pc = "found" /\ Len(Matching) % page_size # 0) =>
        /\ Len(QueryCalls) = FullPages + 1
        /\ \A i \in DOMAIN QueryCalls :
               /\ QueryCalls[i].offset = (i - 1) * page_size
               /\ QueryCalls[i].returned =
                      IF i <= FullPages THEN page_size ELSE Len(Matching) % page_size
        /\ Len(doc_ids) =
               Cardinality({ i \in DOMAIN Matching : Matching[i].document_id # 0 })
        /\ \A i \in DOMAIN doc_ids :
               doc_ids[i] = Matching[i + (Len(Matching) - Len(doc_ids))].document_id
        /\ finds[Len(finds)].result = doc_ids

\* Two full pages and a short one were read.
C4_Witness ==
    /\ pc = "found"
    /\ FullPages = 2
    /\ Len(Matching) % page_size # 0
    /\ Len(doc_ids) = Len(Matching)
    /\ Len(QueryCalls) = 3

\* A single short page was read.
C4_WitnessOnePage ==
    /\ pc = "found"
    /\ FullPages = 0
    /\ Len(Matching) > 0
    /\ Len(QueryCalls) = 1

\* C5: the error list holds one record per failed delete attempt, in the
\* order of the attempts, with the url, the document id and the collection
\* name of the pair being processed; the text is the exception's text for a
\* call that raised and "unexpected status" for a status other than
\* "deleted".  Failed attempts leave total_deleted alone.
C5_ErrorRecords ==
    LET failed == FailedCalls
    IN  /\ Len(errors) = Len(failed)
        /\ \A i \in DOMAIN failed :
               LET c == failed[i]
               IN  /\ i <= Len(errors)
                   /\ errors[i].url = urls[c.ui]
                   /\ errors[i].doc_id = c.doc_id
                   /\ errors[i].doc_id = ResultOf(c.ui, c.ci)[c.di]
                   /\ errors[i].collection_name = collections[c.ci].name
                   /\ c.outcome = "raised" => errors[i].error = c.text /\ c.text # ""
                   /\ c.outcome # "raised" => errors[i].error = "unexpected status"
        /\ total_deleted + Len(failed) = Len(DeleteCalls)

\* Both kinds of failure were recorded, in the collection without a name too.
C5_Witness ==
    /\ \E i \in DOMAIN errors : errors[i].error = "unexpected status"
    /\ \E i \in DOMAIN errors : errors[i].error = "service error"
    /\ \E i \in DOMAIN errors : errors[i].collection_name = "Unnamed"
    /\ total_deleted > 0

LexLess(a, b) ==
    \/ a.ui < b.ui
    \/ a.ui = b.ui /\ a.ci < b.ci
    \/ a.ui = b.ui /\ a.ci = b.ci /\ a.di < b.di

IsProgress(e) == e.kind \in { "deleted", "warning", "error" }
ProgressLines == SelectSeq(output, IsProgress)
IsProcessing(e) == e.kind = "Processing"
ProcessingLines == SelectSeq(output, IsProcessing)
PrintedFor(outcome) ==
    IF outcome = "deleted" THEN "deleted"
    ELSE IF outcome = "raised" THEN "error" ELSE "warning"

\* C6: error records and progress lines come in the nested iteration order.
\* The i-th error record is the i-th failed delete attempt's, and of two
\* records the earlier one has the earlier url entry, or the same entry and
\* the earlier collection, or the same pair and the earlier document of the
\* query result; the progress lines follow the delete attempts one to one,
\* and the "Processing" lines follow the url entries.
C6_NestedOrder ==
    LET failed == FailedCalls
        deletes == DeleteCalls
        progress == ProgressLines
        processing == ProcessingLines
    IN  /\ Len(errors) = Len(failed)
        /\ \A i \in DOMAIN errors :
               /\ errors[i].url = urls[failed[i].ui]
               /\ errors[i].collection_name = collections[failed[i].ci].name
               /\ errors[i].doc_id = ResultOf(failed[i].ui, failed[i].ci)[failed[i].di]
        /\ \A i, j \in DOMAIN errors : i < j => LexLess(failed[i], failed[j])
        /\ Len(progress) = Len(deletes)
        /\ \A i \in DOMAIN progress :
               /\ progress[i].doc_id = deletes[i].doc_id
               /\ progress[i].kind = PrintedFor(deletes[i].outcome)
               /\ progress[i].collection_name = collections[deletes[i].ci].name
        /\ \A i, j \in DOMAIN deletes : i < j => LexLess(deletes[i], deletes[j])
        /\ Len(processing) = ui
        /\ \A u \in DOMAIN processing : processing[u].url = urls[u]

\* Errors were recorded for two documents of one pair, for a second
\* collection and for a second url entry.
C6_Witness ==
    /\ Len(errors) >= 4
    /\ \E i, j, k, l \in DOMAIN FailedCalls :
           /\ i < j /\ j < k /\ k < l
           /\ FailedCalls[i].ui = 1 /\ FailedCalls[i].ci = 1 /\ FailedCalls[i].di = 1
           /\ FailedCalls[j].ui = 1 /\ FailedCalls[j].ci = 1 /\ FailedCalls[j].di = 2
           /\ FailedCalls[k].ui = 1 /\ FailedCalls[k].ci = 2
           /\ FailedCalls[l].ui = 2

\* The url entries whose processing is over, and those that matched nothing.
Finished(u) == u + 1 \in DOMAIN snap
ZeroMatches(u) ==
    \A c \in DOMAIN collections : Searched(u, c) /\ ResultOf(u, c) = <<>>

\* C7: a url entry with zero matches in every collection adds exactly one to
\* total_not_found and nothing to total_deleted over its whole iteration, and
\* no delete call is made for it.
C7_ZeroMatches ==
    \A u \in DOMAIN urls :
        (Finished(u) /\ ZeroMatches(u)) =>
            /\ snap[u + 1].total_not_found = snap[u].total_not_found + 1
            /\ snap[u + 1].total_deleted = snap[u].total_deleted
            /\ snap[u + 1].errors = snap[u].errors
            /\ \A k \in DOMAIN calls : IsDelete(calls[k]) => calls[k].ui # u

\* A url found in neither of two collections, after a url that was found.
C7_Witness ==
    /\ Len(collections) = 2
    /\ Finished(2) /\ ZeroMatches(2)
    /\ ~ZeroMatches(1)
    /\ total_deleted > 0
    /\ total_not_found = 1

\* C8: once the url loop is entered the run ends; unless a query raised, it
\* ends after the last url with the summary printed and exit status 0,
\* whatever the number of error records.
C8_ExitsZero ==
    (pc = "url_loop") ~>
        (/\ pc = "exited"
         /\ uncaught = "" => (exit_code = 0 /\ Reported /\ ui = Len(urls)))

\* A run ended with status 0 and error records in its summary.
C8_Witness ==
    /\ Reported
    /\ exit_code = 0
    /\ Len(errors) >= 2
    /\ \E i \in DOMAIN output : output[i].kind = "Errors" /\ output[i].n = Len(errors)

\* C9: a file that yields no url ends the run with the nothing-to-do line,
\* exit status 0 and no remote call.
C9_NothingToDo ==
    (/\ Missing(environ) = {}
     /\ fs.exists
     /\ loads = 1
     /\ urls = <<>>
     /\ pc # "check_urls") =>
        /\ pc = "exited"
        /\ exit_code = 0
        /\ calls = <<>>
        /\ output = << Line("No URLs found in input file. Nothing to do.") >>

\* A file of comment lines only was read and the run is over.
C9_Witness ==
    /\ pc = "exited"
    /\ loads = 1
    /\ fs.exists /\ Len(fs.lines) = 2
    /\ urls = <<>>
    /\ exit_code = 0

Unset == { k \in Required : environ[k] = None }

\* C10: with a required configuration value missing the run ends with a
\* non-zero status before load_urls is called and before any remote call;
\* with the configuration present and no input file it ends with status 1
\* before any remote call.
C10_FatalStartup ==
    /\ (Unset # {} /\ pc # "load_config") =>
           /\ pc = "exited" /\ exit_code # 0
           /\ loads = 0
           /\ calls = <<>>
    /\ (Unset = {} /\ ~fs.exists /\ pc \notin { "load_config", "load_urls" }) =>
           /\ pc = "exited" /\ exit_code = 1
           /\ calls = <<>>
    /\ calls # <<>> => (Unset = {} /\ fs.exists /\ loads = 1)

\* The run ended on a missing project id alone.
C10_Witness ==
    /\ pc = "exited"
    /\ Unset = { "DISCOVERY_PROJECT_ID" }
    /\ environ["DISCOVERY_API_KEY"] = "v" /\ environ["DISCOVERY_URL"] = "v"
    /\ exit_code = 1

\* The run ended on a missing input file.
C10_WitnessNoFile ==
    /\ pc = "exited"
    /\ Unset = {}
    /\ ~fs.exists
    /\ loads = 1
    /\ exit_code = 1

ListedNothing ==
    \E k \in DOMAIN calls :
        calls[k].op = "list_collections" /\ calls[k].outcome = "ok" /\ calls[k].returned = 0

\* C11: when list_collections returns an empty list the run ends at once with
\* exit status 1: the listing is the only remote call, no query and no delete
\* call is made, and no summary is printed.
C11_NoCollections ==
    ListedNothing =>
        /\ pc = "exited"
        /\ exit_code = 1
        /\ Len(calls) = 1
        /\ \A k \in DOMAIN calls : ~IsQuery(calls[k]) /\ ~IsDelete(calls[k])
        /\ finds = <<>>
        /\ ~Reported
        /\ output[Len(output)] = Line("ERROR: No collections found in the project.")

\* Two urls were loaded and the project had no collection.
C11_Witness ==
    /\ ListedNothing
    /\ Len(urls) = 2
    /\ pc = "exited"
    /\ exit_code = 1

QueriesIn(coll) == { k \in DOMAIN calls : IsQuery(calls[k]) /\ calls[k].collection_id = coll }
DeletesIn(coll) == { k \in DOMAIN calls : IsDelete(calls[k]) /\ calls[k].collection_id = coll }
MatchesIn(coll, url) == SelectSeq(remote.index[coll], LAMBDA d : d.url = url)

\* A finished run over one url and the collections c1, c2: the url matched one
\* document in c1, whose delete succeeded, and nothing in c2 (c2 holds no
\* match at the end and lost no document during the run).
OneMatchInFirst ==
    /\ Reported
    /\ Len(urls) = 1
    /\ Len(collections) = 2
    /\ Len(ResultOf(1, 1)) = 1
    /\ \E k \in DeletesIn("c1") : calls[k].outcome = "deleted"
    /\ MatchesIn("c2", urls[1]) = <<>>
    /\ \A k \in DeletesIn("c2") : calls[k].outcome # "deleted"

\* C12 as stated: in that run one deletion and no not-found are reported, and
\* nothing is queried in c2 once the document was found in c1.
C12_NoQueryInSecond ==
    OneMatchInFirst =>
        /\ total_deleted = 1
        /\ total_not_found = 0
        /\ QueriesIn("c2") = {}

\* C12, amended: in that run one deletion and no not-found are reported; c2 is
\* still searched for the url, by one query that returns nothing, and no
\* delete call is made in c2.
C12_OneDeletion ==
    OneMatchInFirst =>
        /\ total_deleted = 1
        /\ total_not_found = 0
        /\ errors = <<>>
        /\ Cardinality(QueriesIn("c1")) = 1
        /\ Cardinality(QueriesIn("c2")) = 1
        /\ \A k \in QueriesIn("c2") :
               calls[k].url = urls[1] /\ calls[k].returned = 0 /\ calls[k].outcome = "ok"
        /\ Cardinality(DeletesIn("c1")) = 1
        /\ DeletesIn("c2") = {}

\* Such a run: c2 was searched after the deletion in c1.
C12_Witness ==
    /\ OneMatchInFirst
    /\ total_deleted = 1
    /\ QueriesIn("c2") # {}

\* ------------------------------------------------------- loading the file
\* Lines of every shape load_urls tells apart: blank, comment, url, url with
\* a "#" or a space inside, each between up to MaxPad spaces on either side.
Cores == { <<>>, <<HASH, "a">>, <<"a">>, <<"a", HASH>>, <<"a", SP, "a">> }
Pads == { [i \in 1..n |-> SP] : n \in 0..MaxPad }
LoadLines == { l \o core \o r : l \in Pads, core \in Cores, r \in Pads }
LoadFiles == SeqsUpTo(LoadLines, MaxLines)

\* The script starts with a complete configuration and an existing file.
InitLoad ==
    /\ environ = [k \in Required |-> "v"]
    /\ fs \in { [exists |-> TRUE, lines |-> f] : f \in LoadFiles }
    /\ StartOfMain

NextLoad == LoadConfig \/ LoadUrls \/ CheckUrls

SpecLoad == InitLoad /\ [][NextLoad]_vars

\* A line without the whitespace around it.
Inked(s) == { i \in DOMAIN s : s[i] \notin Whitespace }
Trimmed(s) ==
    IF Inked(s) = {} THEN <<>>
    ELSE SubSeq(s, CHOOSE i \in Inked(s) : \A j \in Inked(s) : i <= j,
                   CHOOSE i \in Inked(s) : \A j \in Inked(s) : j <= i)
\* The lines that are urls, and the position of the j-th of them.
Kept(lines) ==
    { i \in DOMAIN lines : Trimmed(lines[i]) # <<>> /\ Trimmed(lines[i])[1] # HASH }
KeptAt(lines, j) ==
    CHOOSE i \in Kept(lines) : Cardinality({ k \in Kept(lines) : k <= i }) = j

\* C13: load_urls returns the trimmed lines of the file that are neither
\* empty nor comments after trimming, in file order, duplicates included: no
\* returned entry is empty or starts with "#", and the j-th entry is the j-th
\* such line, trimmed.
C13_LoadUrls ==
    (fs.exists /\ loads = 1) =>
        /\ Len(urls) = Cardinality(Kept(fs.lines))
        /\ \A j \in DOMAIN urls :
               /\ urls[j] # <<>> /\ Head(urls[j]) # HASH
               /\ urls[j] = Trimmed(fs.lines[KeptAt(fs.lines, j)])

\* The same padded url on two lines: both are returned, trimmed.
C13_Witness ==
    /\ loads = 1
    /\ Len(fs.lines) = 2
    /\ fs.lines[1] = fs.lines[2]
    /\ Len(urls) = 2
    /\ urls[1] = <<"a", SP, "a">>
    /\ Len(fs.lines[1]) = 5

\* A padded comment before a url: only the url is returned.
C13_WitnessComment ==
    /\ loads = 1
    /\ fs.lines = << <<SP, HASH, "a">>, <<"a", HASH>> >>
    /\ urls = << <<"a", HASH>> >>

RaisedQuery(c) == IsQuery(c) /\ c.outcome = "raised"

\* C14: a query that raises ends the run there.  The raised query is the last
\* call of the run, whatever collections and urls remain; the script exits
\* with a non-zero status without printing the summary or the "not found"
\* line of the url, the counters stay as they were, and every document
\* deleted before is still gone.
C14_QueryAborts ==
    \A k \in DOMAIN calls :
        RaisedQuery(calls[k]) =>
            /\ k = Len(calls)
            /\ uncaught = "query"
            /\ pc = "exited" /\ exit_code = 1
            /\ ~Reported
            /\ output[Len(output)].kind \notin { "--- Summary ---", "Not found in any collection." }
            /\ ui = calls[k].ui /\ ci = calls[k].ci
            /\ total_deleted = Cardinality(DeletedCalls)
            /\ \A j \in DeletedCalls :
                   <<calls[j].collection_id, calls[j].doc_id>> \notin remote.live

\* A query raised for the second collection of the first of two urls, after
\* a document of the first collection was deleted.
C14_Witness ==
    /\ uncaught = "query"
    /\ Len(urls) = 2 /\ Len(collections) = 2
    /\ ui = 1 /\ ci = 2
    /\ total_deleted = 1
    /\ RaisedQuery(calls[Len(calls)])

\* C15: every delete call is made for the url entry and the collection being
\* processed, against that collection, and for the document id at its
\* position in the list the search of that pair returned: no id that was not
\* fetched for the pair is deleted, and none in another collection.
C15_DeleteTargets ==
    \A k \in DOMAIN calls :
        IsDelete(calls[k]) =>
            LET u == calls[k].ui
                c == calls[k].ci
            IN  /\ u \in DOMAIN urls /\ c \in DOMAIN collections
                /\ (k = Len(calls) /\ pc = "doc_loop") => (ui = u /\ ci = c /\ di = calls[k].di)
                /\ Searched(u, c)
                /\ Cardinality(FindsOf(u, c)) = 1
                /\ \A i \in FindsOf(u, c) :
                       /\ finds[i].url = urls[u]
                       /\ finds[i].collection_id = collections[c].collection_id
                       /\ calls[k].di \in DOMAIN finds[i].result
                       /\ calls[k].doc_id = finds[i].result[calls[k].di]
                /\ calls[k].collection_id = collections[c].collection_id
                /\ \E j \in 1..(k - 1) :
                       /\ IsQuery(calls[j]) /\ calls[j].outcome = "ok"
                       /\ calls[j].ui = u /\ calls[j].ci = c
                       /\ calls[j].collection_id = calls[k].collection_id
                       /\ calls[j].url = urls[u]
                       /\ calls[j].returned > 0

\* The same document id was fetched and deleted in both collections, each
\* delete against the collection it was fetched from.
C15_Witness ==
    /\ Reported
    /\ \E j, k \in DOMAIN calls :
           /\ IsDelete(calls[j]) /\ IsDelete(calls[k])
           /\ calls[j].doc_id = calls[k].doc_id
           /\ calls[j].collection_id = "c1" /\ calls[k].collection_id = "c2"
           /\ calls[j].ci = 1 /\ calls[k].ci = 2

RECURSIVE TotalReturned(_)
TotalReturned(fnds) ==
    IF fnds = <<>> THEN 0 ELSE Len(Head(fnds).result) + TotalReturned(Tail(fnds))

\* C16: at every point of the run total_deleted + len(errors) is the number
\* of delete attempts made so far, every attempt having added one to
\* total_deleted or one record to errors and never both; when the summary is
\* reported the sum is the number of document ids all the searches returned.
C16_Bookkeeping ==
    LET deletes == DeleteCalls
        failed == FailedCalls
    IN  /\ total_deleted + Len(errors) = Len(deletes)
        /\ total_deleted = Len(deletes) - Len(failed)
        /\ Len(errors) = Len(failed)
        /\ Reported => total_deleted + Len(errors) = TotalReturned(finds)

\* A reported run in which three ids were returned, at least one deleted and
\* at least one failed.
C16_Witness ==
    /\ Reported
    /\ TotalReturned(finds) >= 3
    /\ total_deleted >= 1
    /\ Len(errors) >= 1

\* ------------------------------------------------ paging runs with deletes
\* A collection holding n documents of UrlA of which only the ones at the
\* positions in ided have a document_id (their position): the last result of
\* the first page and the first of the second.
SparseIndex(n, ided) ==
    [c \in CollIds |->
        IF c = "c1"
        THEN [i \in 1..n |-> Doc(IF i \in ided THEN i ELSE 0, UrlA)]
        ELSE <<>>]

\* main is about to enter the url loop: the file held UrlA once or twice and
\* the project has one collection.
InitSparse ==
    /\ environ = [k \in Required |-> "v"]
    /\ \E two \in BOOLEAN :
         /\ fs = [exists |-> TRUE,
                  lines |-> IF two THEN << <<SP, "a", SP>>, <<SP, "a", SP>> >>
                            ELSE << <<SP, "a", SP>> >>]
         /\ urls = IF two THEN << UrlA, UrlA >> ELSE << UrlA >>
    /\ \E n \in 0..MaxResults, ided \in SUBSET { page_size, page_size + 1 },
          l \in BOOLEAN :
         /\ n % page_size <= 1
         /\ ided \subseteq 1..n
         /\ remote = [collections |-> << [collection_id |-> "c1", name |-> "A"] >>,
                      index |-> SparseIndex(n, ided),
                      live |-> LiveOf(SparseIndex(n, ided)),
                      lag |-> l, endless |-> FALSE]
    /\ pc = "url_loop"
    /\ exit_code = -1
    /\ uncaught = ""
    /\ collections = << [collection_id |-> "c1", name |-> "A"] >>
    /\ ui = 0 /\ ci = 0 /\ di = 0
    /\ doc_ids = <<>> /\ offset = 0
    /\ found_any = FALSE
    /\ total_deleted = 0 /\ total_not_found = 0 /\ errors = <<>>
    /\ output = << Count("Loaded URL(s) to delete", Len(urls)),
                   Count("Found collection(s)", 1),
                   Ev("collection", <<>>, 0, "A", "c1", 0) >>
    /\ calls = << [op |-> "list_collections", collection_id |-> "", url |-> <<>>,
                   offset |-> 0, doc_id |-> 0, outcome |-> "ok", returned |-> 1,
                   text |-> "", ui |-> 0, ci |-> 0, di |-> 0] >>
    /\ finds = <<>>
    /\ snap = <<>>
    /\ loads = 1

NextSparse ==
    \/ NextUrl
    \/ NextCollection
    \/ EndUrl
    \/ QueryPage
    \/ CheckMatches
    \/ DeleteStep
    \/ EndDocs
    \/ Summary

SpecSparse == InitSparse /\ [][NextSparse]_vars

SamePair(a, b) == a.ui = b.ui /\ a.ci = b.ci
PairBefore(a, b) == a.ui < b.ui \/ (a.ui = b.ui /\ a.ci < b.ci)
QueriesOfPair(u, c) ==
    SelectSeq(calls, LAMBDA x : IsQuery(x) /\ x.ui = u /\ x.ci = c)

\* C17: the calls of the run follow the (url entry, collection) pairs in
\* order, and within a pair every query call comes before every delete call:
\* a query made after a delete belongs to a later pair, so no delete lies
\* between two pages of one pagination, and the pages of a pair are asked for
\* at offsets 0, page_size, 2 * page_size, ... with nothing deleted between.
C17_QueryBeforeDelete ==
    /\ \A i, j \in DOMAIN calls :
           i < j =>
               /\ SamePair(calls[i], calls[j]) \/ PairBefore(calls[i], calls[j])
               /\ (IsDelete(calls[i]) /\ IsQuery(calls[j])) =>
                      PairBefore(calls[i], calls[j])
    /\ \A f \in DOMAIN finds :
           LET qs == QueriesOfPair(finds[f].ui, finds[f].ci)
           IN  \A i \in DOMAIN qs : qs[i].offset = (i - 1) * page_size

\* A pair whose search took two pages, followed by two delete calls for it,
\* one for an id of each page, before the next url entry was searched.
C17_Witness ==
    /\ Reported
    /\ Len(urls) = 2
    /\ Len(QueriesOfPair(1, 1)) = 2
    /\ \E j, k \in DOMAIN calls :
           /\ IsDelete(calls[j]) /\ IsDelete(calls[k])
           /\ calls[j].ui = 1 /\ calls[k].ui = 1
           /\ calls[j].doc_id = page_size /\ calls[k].doc_id = page_size + 1
    /\ QueriesOfPair(2, 1) # <<>>

\* ------------------------------------------- paging runs without an end
\* The same call against a remote whose every page is full.
InitEndless ==
    /\ environ = [k \in Required |-> "v"]
    /\ fs = [exists |-> TRUE, lines |-> << <<SP, "a", SP>> >>]
    /\ remote = [collections |-> << [collection_id |-> "c1", name |-> "A"] >>,
                 index |-> [c \in CollIds |-> <<>>],
                 live |-> {},
                 lag |-> FALSE, endless |-> TRUE]
    /\ PagingStart

SpecTermination == (InitPaging \/ InitEndless) /\ [][NextPaging]_vars

\* C18: the offsets asked for are 0, page_size, 2 * page_size, ... in this
\* order.  Against a stable result set of n documents the paging loop ends
\* after exactly n \div page_size + 1 query calls and not before; when n is a
\* positive multiple of page_size the last call comes after a full page and
\* returns nothing.  Against a remote whose every page is full the loop never
\* ends: every call returns page_size results and another call follows.
C18_Termination ==
    LET queries == QueryCalls
        n == Len(Matching)
    IN  /\ \A i \in DOMAIN queries : queries[i].offset = (i - 1) * page_size
        /\ pc = "query" => offset = Len(queries) * page_size
        /\ ~remote.endless =>
               /\ pc = "query" => Len(queries) <= n \div page_size
               /\ pc # "query" =>
                      /\ Len(queries) = n \div page_size + 1
                      /\ finds[1].returned
                      /\ (n > 0 /\ n % page_size = 0) =>
                             /\ queries[Len(queries)].returned = 0
                             /\ queries[Len(queries) - 1].returned = page_size
        /\ remote.endless =>
               /\ pc = "query"
               /\ ~finds[1].returned
               /\ \A i \in DOMAIN queries : queries[i].returned = page_size
               /\ Len(doc_ids) = Len(queries) * page_size
               /\ offset <= MaxOffset => ENABLED QueryPage

\* A result set of exactly two pages was read with three calls.
C18_Witness ==
    /\ pc = "found"
    /\ ~remote.endless
    /\ Len(Matching) = 2 * page_size
    /\ Len(QueryCalls) = 3
    /\ QueryCalls[3].returned = 0

\* The endless remote was asked for as many pages as the run is followed.
C18_WitnessEndless ==
    /\ remote.endless
    /\ pc = "query"
    /\ offset > MaxOffset
    /\ Len(QueryCalls) > MaxResults \div page_size + 1

SomeMatch(u) == \E c \in DOMAIN collections : Searched(u, c) /\ ResultOf(u, c) # <<>>
DeletesOf(u) == { k \in DOMAIN calls : IsDelete(calls[k]) /\ calls[k].ui = u }
AllFailed(u) ==
    /\ DeletesOf(u) # {}
    /\ \A k \in DeletesOf(u) : calls[k].outcome # "deleted"

\* C19: over the iteration of a url entry total_not_found grows by one if
\* every collection's search returned no document id, and not at all
\* otherwise.  An entry with a match whose delete attempts all failed adds to
\* neither total_not_found nor total_deleted, and total_not_found never
\* exceeds the number of url entries processed.
C19_NotFoundAccounting ==
    /\ total_not_found <= ui
    /\ total_not_found <= Len(urls)
    /\ \A u \in DOMAIN urls :
           Finished(u) =>
               /\ \A c \in DOMAIN collections : Searched(u, c)
               /\ ZeroMatches(u) <=> ~SomeMatch(u)
               /\ snap[u + 1].total_not_found - snap[u].total_not_found =
                      IF ZeroMatches(u) THEN 1 ELSE 0
               /\ AllFailed(u) =>
                      /\ SomeMatch(u)
                      /\ snap[u + 1].total_not_found = snap[u].total_not_found
                      /\ snap[u + 1].total_deleted = snap[u].total_deleted
    /\ Reported =>
           total_not_found = Cardinality({ u \in DOMAIN urls : ZeroMatches(u) })

\* A reported run of two url entries: the first matched and every delete
\* attempt for it failed, the second matched nowhere; the first is counted
\* in neither counter.
C19_Witness ==
    /\ Reported
    /\ Len(urls) = 2 /\ Len(collections) = 2
    /\ AllFailed(1)
    /\ Cardinality(DeletesOf(1)) >= 2
    /\ ZeroMatches(2)
    /\ total_deleted = 0
    /\ total_not_found = 1

====
